---- MODULE Spec2Model ----
(***************************************************************************)
(* Model of Lib/compiler/static/module_table.py: the per-module            *)
(* declaration table (declare_class / declare_function /                   *)
(* declare_variable), the binder (finish_bind), the annotation and         *)
(* decorator resolvers and the Final-literal registry of ModuleTable.      *)
(*                                                                         *)
(* Python values (types.py) and AST nodes (ast) are records with a fixed   *)
(* set of fields, so that any two of them compare.  Python's None is the   *)
(* record NoneVal; a raised exception is a record of kind "Error".         *)
(***************************************************************************)
EXTENDS Naturals, Sequences, FiniteSets

(***************************************************************************)
(* Bounds of the model.                                                    *)
(***************************************************************************)
MaxDecls == 3
MaxDecorators == 3

(***************************************************************************)
(* Values of the type hierarchy (types.py).                                *)
(***************************************************************************)
Val(k, n, i, a) == [kind |-> k, name |-> n, id |-> i, args |-> a]

NoneVal == Val("None", "", 0, <<>>)

INT_TYPE == Val("Class", "int", 0, <<>>)
FLOAT_TYPE == Val("Class", "float", 0, <<>>)
STR_TYPE == Val("Class", "str", 0, <<>>)
NONE_TYPE == Val("Class", "NoneType", 0, <<>>)
DYNAMIC_TYPE == Val("DynamicClass", "dynamic", 0, <<>>)
INT64_TYPE == Val("CType", "int64", 0, <<>>)
UNION_TYPE == Val("UnionType", "Union", 0, <<>>)
OPTIONAL_TYPE == Val("UnionType", "Optional", 0, <<>>)
FINAL_TYPE == Val("FinalClass", "Final", 0, <<>>)
CLASSVAR_TYPE == Val("ClassVar", "ClassVar", 0, <<>>)

\* The exact form of a class ("exactly this class, no subclass").
Exact(klass) == [klass EXCEPT !.kind = "ExactClass"]

\* A class created by a ClassDef, a function created by a FunctionDef.
UserClass(n, i) == Val("Class", n, i, <<>>)
Function(n, i) == Val("Function", n, i, <<>>)
\* FunctionGroup: its member list lives in the heap variable `functions`.
FunctionGroup(n, i) == Val("FunctionGroup", n, i, <<>>)
Instance(klass) == Val("Instance", "", 0, <<klass>>)
UnknownDecoratedMethod(func) == Val("UnknownDecoratedMethod", "", 0, <<func>>)

\* A raised exception.
Error(msg) == Val("Error", msg, 0, <<>>)
IsError(v) == v.kind = "Error"

\* isinstance(v, Class), isinstance(v, FinalClass), ...
IsClass(v) ==
    v.kind \in {"Class", "ExactClass", "CType", "DynamicClass", "FinalClass",
                "ClassVar", "UnionType"}
IsFinalClass(v) == v.kind = "FinalClass"
IsClassVar(v) == v.kind = "ClassVar"
IsCType(v) == v.kind = "CType"
IsUnionType(v) == v.kind = "UnionType"
IsDynamicClass(v) == v.kind = "DynamicClass"
IsFunction(v) == v.kind = "Function"
IsFunctionGroup(v) == v.kind = "FunctionGroup"
IsCallable(v) == v.kind = "Function"

\* klass.inexact_type()
inexact_type(klass) ==
    IF klass.kind = "ExactClass" THEN [klass EXCEPT !.kind = "Class"] ELSE klass

\* The optional facet of a union: the other member of a two-member union
\* one of whose members is the null type.
opt_type(klass) ==
    IF Len(klass.args) = 2 /\ klass.args[2] = NONE_TYPE /\ klass.args[1] # NONE_TYPE
    THEN klass.args[1]
    ELSE IF Len(klass.args) = 2 /\ klass.args[1] = NONE_TYPE
                                /\ klass.args[2] # NONE_TYPE
    THEN klass.args[2]
    ELSE NoneVal

\* val.make_generic_type(index, generic_types): None when val is not an
\* uninstantiated generic class taking that many arguments.
make_generic_type(val, index) ==
    IF val = UNION_TYPE /\ Len(index) >= 1
    THEN Val("UnionType", "Union", 0, index)
    ELSE IF val = OPTIONAL_TYPE /\ Len(index) = 1
    THEN Val("UnionType", "Union", 0, <<index[1], NONE_TYPE>>)
    ELSE IF val = FINAL_TYPE /\ Len(index) = 1
    THEN Val("FinalClass", "Final", 0, index)
    ELSE IF val = CLASSVAR_TYPE /\ Len(index) = 1
    THEN Val("ClassVar", "ClassVar", 0, index)
    ELSE NoneVal

\* typ.unwrap() of a qualifier: its inner type, dynamic for the bare qualifier.
unwrap(typ) == IF Len(typ.args) = 1 THEN typ.args[1] ELSE DYNAMIC_TYPE

\* val.resolve_attr(node): no value of the model has members.
resolve_attr(val, attr) == NoneVal

\* func.return_type.resolved().instance: functions of the model are
\* unannotated.
return_instance(func) == Instance(DYNAMIC_TYPE)

\* x or y
Or(x, y) == IF x # NoneVal THEN x ELSE y

\* self.compiler.builtins.children
Builtins ==
    [n \in {"int", "float", "str", "int64", "Final", "ClassVar", "Optional", "Union"} |->
        CASE n = "int" -> Exact(INT_TYPE)
          [] n = "float" -> Exact(FLOAT_TYPE)
          [] n = "str" -> Exact(STR_TYPE)
          [] n = "int64" -> INT64_TYPE
          [] n = "Final" -> FINAL_TYPE
          [] n = "ClassVar" -> CLASSVAR_TYPE
          [] n = "Optional" -> OPTIONAL_TYPE
          [] n = "Union" -> UNION_TYPE]

(***************************************************************************)
(* AST nodes (ast).                                                        *)
(***************************************************************************)
Ast(t, i, k) == [node |-> t, id |-> i, kids |-> k]

Name(i) == Ast("Name", i, <<>>)
\* A Constant whose value is None, a Constant that is a literal number.
ConstNone == Ast("Constant", "None", <<>>)
ConstNum == Ast("Constant", "5", <<>>)
\* A string constant; its kid is ast.parse(text, "", "eval").body.
Str(e) == Ast("Constant", "str", <<e>>)
BinOp(l, r) == Ast("BinOp", "BitOr", <<l, r>>)
BinAdd(l, r) == Ast("BinOp", "Add", <<l, r>>)
Tuple(elts) == Ast("Tuple", "", elts)
\* Subscript(value, Index(slice))
Subscript(v, s) == Ast("Subscript", "", <<v, s>>)
Attribute(v, a) == Ast("Attribute", a, <<v>>)
Call(f) == Ast("Call", "", <<f>>)
\* The absent optional child of a node (AnnAssign.value is None).
NoNode == Ast("None", "", <<>>)

(***************************************************************************)
(* The resolvers.  ch is self.children, done is self.first_pass_done.      *)
(* mode names the callback _resolve is given: "annotation" is              *)
(* resolve_annotation (with resolve_annotation(is_declaration=True) for    *)
(* the target of a subscript), "type" is resolve_type, "decorator" is      *)
(* resolve_decorator.  An exception raised by a callee is returned by the  *)
(* caller unchanged.                                                       *)
(***************************************************************************)
resolve_name(ch, name) ==
    Or(IF name \in DOMAIN ch THEN ch[name] ELSE NoneVal,
       IF name \in DOMAIN Builtins THEN Builtins[name] ELSE NoneVal)

\* A call of one resolver by another: resolve_annotation, resolve_type,
\* resolve_decorator, _resolve_annotation or _resolve (of a mode).
RECURSIVE invoke(_, _, _, _, _, _)

\* _resolve(node) of the callback.
callback(mode, node, ch, done) ==
    CASE mode = "annotation" -> invoke("resolve_annotation", node, FALSE, mode, ch, done)
      [] mode = "type" -> invoke("resolve_type", node, FALSE, mode, ch, done)
      [] mode = "decorator" -> invoke("resolve_decorator", node, FALSE, mode, ch, done)

\* (_resolve_subscr_target or _resolve)(node)
subscr_target(mode, node, ch, done) ==
    IF mode = "annotation"
    THEN invoke("resolve_annotation", node, TRUE, mode, ch, done)
    ELSE callback(mode, node, ch, done)

\* The loop over value.elts: each `_resolve(elt) or DYNAMIC_TYPE`, in order.
RECURSIVE resolve_elts(_, _, _, _)
resolve_elts(mode, elts, ch, done) ==
    IF elts = <<>> THEN <<>>
    ELSE LET ann == callback(mode, Head(elts), ch, done)
         IN IF IsError(ann) THEN <<ann>>
            ELSE <<Or(ann, DYNAMIC_TYPE)>> \o resolve_elts(mode, Tail(elts), ch, done)

_resolve(node, mode, ch, done) ==
    IF node.node = "Name" THEN resolve_name(ch, node.id)
    ELSE IF node.node = "Subscript" THEN
        LET val == subscr_target(mode, node.kids[1], ch, done)
            value == node.kids[2]
        IN IF IsError(val) THEN val
           ELSE IF val = NoneVal THEN NoneVal
           ELSE IF value.node = "Tuple" THEN
               LET anns == resolve_elts(mode, value.kids, ch, done)
               IN IF anns # <<>> /\ IsError(anns[Len(anns)]) THEN anns[Len(anns)]
                  ELSE Or(make_generic_type(val, anns), val)
           ELSE
               LET r == callback(mode, value, ch, done)
                   index == Or(r, DYNAMIC_TYPE)
               IN IF IsError(r) THEN r
                  ELSE IF ~IsClass(index) THEN NoneVal
                  ELSE Or(make_generic_type(val, <<index>>), val)
    ELSE IF node.node = "Attribute" THEN
        LET val == subscr_target(mode, node.kids[1], ch, done)
        IN IF IsError(val) THEN val
           ELSE IF val # NoneVal THEN resolve_attr(val, node.id)
           ELSE NoneVal
    ELSE NoneVal

\* _resolve_annotation that resolves the text of a string as a declaration.
_resolve_annotation_declared(node, ch, done) ==
    LET typ == invoke("_resolve", node, FALSE, "annotation", ch, done)
    IN IF IsError(typ) THEN typ
       ELSE IF IsClass(typ) THEN typ
       ELSE IF node.node = "Constant" THEN
           IF node.id = "None" THEN NONE_TYPE
           ELSE IF node.id = "str"
           THEN invoke("resolve_annotation", node.kids[1], TRUE, "", ch, done)
           ELSE NoneVal
       ELSE IF node.node = "BinOp" /\ node.id = "BitOr" THEN
           LET ltype == invoke("resolve_annotation", node.kids[1], FALSE, "", ch, done)
               rtype == invoke("resolve_annotation", node.kids[2], FALSE, "", ch, done)
           IN IF IsError(ltype) THEN ltype
              ELSE IF IsError(rtype) THEN rtype
              ELSE IF ltype = NoneVal \/ rtype = NoneVal THEN NoneVal
              ELSE make_generic_type(UNION_TYPE, <<ltype, rtype>>)
       ELSE NoneVal

_resolve_annotation(node, ch, done) ==
    LET typ == invoke("_resolve", node, FALSE, "annotation", ch, done)
    IN IF IsError(typ) THEN typ
       ELSE IF IsClass(typ) THEN typ
       ELSE IF node.node = "Constant" THEN
           IF node.id = "None" THEN NONE_TYPE
           ELSE IF node.id = "str"
           THEN invoke("resolve_annotation", node.kids[1], FALSE, "", ch, done)
           ELSE NoneVal
       ELSE IF node.node = "BinOp" /\ node.id = "BitOr" THEN
           LET ltype == invoke("resolve_annotation", node.kids[1], FALSE, "", ch, done)
               rtype == invoke("resolve_annotation", node.kids[2], FALSE, "", ch, done)
           IN IF IsError(ltype) THEN ltype
              ELSE IF IsError(rtype) THEN rtype
              ELSE IF ltype = NoneVal \/ rtype = NoneVal THEN NoneVal
              ELSE make_generic_type(UNION_TYPE, <<ltype, rtype>>)
       ELSE NoneVal

\* widen left out: float stays float.
widen_never(klass) == klass

\* The float annotation is widened to float | int.
widen(klass) ==
    IF klass = FLOAT_TYPE
    THEN make_generic_type(UNION_TYPE, <<FLOAT_TYPE, INT_TYPE>>)
    ELSE klass

\* unsafe_union without the test of the optional facet.
unsafe_union_any(klass) ==
    /\ IsUnionType(klass)
    /\ klass # UNION_TYPE
    /\ klass # OPTIONAL_TYPE

\* A union with no optional facet is not checkable at runtime.
unsafe_union(klass) ==
    /\ IsUnionType(klass)
    /\ klass # UNION_TYPE
    /\ klass # OPTIONAL_TYPE
    /\ opt_type(klass) = NoneVal

\* qualifier_check that knows the Final qualifier only.
qualifier_check_final_only(klass, is_declaration) ==
    IF ~is_declaration /\ IsFinalClass(klass) THEN Error("misplaced Final")
    ELSE NoneVal

\* The check of a qualifier outside a declaration.
qualifier_check(klass, is_declaration) ==
    IF ~is_declaration /\ IsFinalClass(klass) THEN Error("misplaced Final")
    ELSE IF ~is_declaration /\ IsClassVar(klass) THEN Error("misplaced ClassVar")
    ELSE NoneVal

\* The assertion resolve_annotation opens with.
phase_check(done) == IF ~done THEN Error("AssertionError") ELSE NoneVal

resolve_annotation(node, is_declaration, ch, done) ==
    IF IsError(phase_check(done)) THEN phase_check(done)
    ELSE LET klass == invoke("_resolve_annotation", node, FALSE, "", ch, done)
         IN IF IsError(klass) THEN klass
            ELSE IF IsError(qualifier_check(klass, is_declaration))
            THEN qualifier_check(klass, is_declaration)
            ELSE LET k == IF klass # NoneVal THEN widen(inexact_type(klass))
                          ELSE klass
                 IN IF unsafe_union(k) THEN NoneVal ELSE k

resolve_type(node, ch, done) ==
    LET typ == invoke("_resolve", node, FALSE, "type", ch, done)
    IN IF IsError(typ) THEN typ
       ELSE IF IsClass(typ) THEN typ
       ELSE NoneVal

resolve_decorator(node, ch, done) ==
    IF node.node = "Call" THEN
        LET func == invoke("resolve_decorator", node.kids[1], FALSE, "", ch, done)
        IN IF IsError(func) THEN func
           ELSE IF IsClass(func) THEN Instance(func)
           ELSE IF IsCallable(func) THEN return_instance(func)
           ELSE invoke("_resolve", node, FALSE, "decorator", ch, done)
    ELSE invoke("_resolve", node, FALSE, "decorator", ch, done)

invoke(fn, node, is_declaration, mode, ch, done) ==
    CASE fn = "resolve_annotation" -> resolve_annotation(node, is_declaration, ch, done)
      [] fn = "_resolve_annotation" -> _resolve_annotation(node, ch, done)
      [] fn = "_resolve" -> _resolve(node, mode, ch, done)
      [] fn = "resolve_type" -> resolve_type(node, ch, done)
      [] fn = "resolve_decorator" -> resolve_decorator(node, ch, done)

(***************************************************************************)
(* The state of one ModuleTable.                                           *)
(***************************************************************************)
VARIABLES
    children,         \* self.children: name -> value (a dict: names bound only)
    decls,            \* self.decls: the pending declarations, in order
    named_finals,     \* self.named_finals: name -> literal constant
    first_pass_done,  \* self.first_pass_done
    types,            \* self.types: definition node -> value
    functions,        \* FunctionGroup.functions of each group, by group id
    ndecl,            \* how many declarations were appended so far
    call,             \* the last call: operation and arguments
    ret,              \* what the last call returned (NoneVal) or raised (an Error)
    finalized,        \* the finish_bind calls the last finish_bind made on values
    commits,          \* the writes to children of the last declaration or binder
    processed,        \* how many entries the last finish_bind took from decls
    applied           \* the decorators the last finish_decorator applied, in order

vars == <<children, decls, named_finals, first_pass_done, types, functions,
          ndecl, call, ret, finalized, commits, processed, applied>>

\* dict operations
EmptyDict == [n \in {} |-> NoneVal]
Put(d, k, v) == [n \in (DOMAIN d) \cup {k} |-> IF n = k THEN v ELSE d[n]]
Del(d, k) == [n \in (DOMAIN d) \ {k} |-> d[n]]
Get(d, k) == IF k \in DOMAIN d THEN d[k] ELSE NoneVal

(***************************************************************************)
(* Declaration nodes and the entries of self.decls.                        *)
(***************************************************************************)
DeclNode(t, i, ann, target, value) ==
    [type |-> t, id |-> i, annotation |-> ann, target |-> target, value |-> value]
ClassDef(i) == DeclNode("ClassDef", i, NoNode, NoNode, NoNode)
FunctionDef(i) == DeclNode("FunctionDef", i, NoNode, NoNode, NoNode)
AnnAssign(ann, target, value) == DeclNode("AnnAssign", 0, ann, target, value)
\* (node, name, value); name and value are None for an annotated assignment.
Decl(node, name, value) == [node |-> node, name |-> name, value |-> value]

CallRec(op, name, node, decl) == [op |-> op, name |-> name, node |-> node, decl |-> decl]

\* A write to self.children: value is None for `del self.children[name]`.
Commit(name, value) == [name |-> name, value |-> value]
\* A call value.finish_bind(self) and what it returned or raised.
Finalize(value, result) == [value |-> value, result |-> result]

Init ==
    /\ children = EmptyDict
    /\ decls = <<>>
    /\ named_finals = EmptyDict
    /\ first_pass_done = FALSE
    /\ types = EmptyDict
    /\ functions = EmptyDict
    /\ ndecl = 0
    /\ call = CallRec("__init__", "", NoNode, FALSE)
    /\ ret = NoneVal
    /\ finalized = <<>>
    /\ commits = <<>>
    /\ processed = 0
    /\ applied = <<>>

(***************************************************************************)
(* declare_class, declare_function, declare_variable                       *)
(***************************************************************************)
\* declare_class that records the declaration and leaves children alone.
declare_class_unbound(name) ==
    /\ ndecl < MaxDecls
    /\ decls' = Append(decls, Decl(ClassDef(ndecl + 1), name, UserClass(name, ndecl + 1)))
    /\ commits' = <<>>
    /\ ndecl' = ndecl + 1
    /\ call' = CallRec("declare_class", name, NoNode, FALSE)
    /\ ret' = NoneVal
    /\ UNCHANGED <<children, named_finals, first_pass_done, types, functions,
                   finalized, processed, applied>>

declare_class(name) ==
    /\ ndecl < MaxDecls
    /\ LET klass == UserClass(name, ndecl + 1)
       IN /\ decls' = Append(decls, Decl(ClassDef(ndecl + 1), name, klass))
          /\ children' = Put(children, name, klass)
          /\ commits' = <<Commit(name, klass)>>
    /\ ndecl' = ndecl + 1
    /\ call' = CallRec("declare_class", name, NoNode, FALSE)
    /\ ret' = NoneVal
    /\ UNCHANGED <<named_finals, first_pass_done, types, functions,
                   finalized, processed, applied>>

\* merge_kind with a group taken for a function: a third declaration makes a
\* new group of the old group and the function.
merge_kind_regroup(existing) ==
    IF existing = NoneVal THEN "bind"
    ELSE IF IsFunction(existing) \/ IsFunctionGroup(existing) THEN "group"
    ELSE "conflict"

\* merge_kind without the conflict: the function replaces any other symbol.
merge_kind_overwrite(existing) ==
    IF existing = NoneVal THEN "bind"
    ELSE IF IsFunction(existing) THEN "group"
    ELSE IF IsFunctionGroup(existing) THEN "append"
    ELSE "bind"

\* What declare_function does with the symbol already bound to the name:
\* "bind" (none), "group" (a function), "append" (a group), "conflict".
merge_kind(existing) ==
    IF existing = NoneVal THEN "bind"
    ELSE IF IsFunction(existing) THEN "group"
    ELSE IF IsFunctionGroup(existing) THEN "append"
    ELSE "conflict"

declare_function(name) ==
    /\ ndecl < MaxDecls
    /\ LET func == Function(name, ndecl + 1)
           existing == Get(children, name)
           kind == merge_kind(existing)
           new_member == CASE kind = "bind" -> func
                           [] kind = "group" -> FunctionGroup(name, ndecl + 1)
                           [] kind = "append" -> existing
                           [] OTHER -> NoneVal
       IN IF kind = "conflict"
          THEN /\ ret' = Error("function conflicts with other member")
               /\ commits' = <<>>
               /\ UNCHANGED <<decls, children, functions, ndecl>>
          ELSE /\ ret' = NoneVal
               /\ functions' =
                    CASE kind = "group" -> Put(functions, ndecl + 1, <<existing, func>>)
                      [] kind = "append" ->
                           [functions EXCEPT ![existing.id] = Append(@, func)]
                      [] OTHER -> functions
               /\ decls' = Append(decls, Decl(FunctionDef(ndecl + 1), name, new_member))
               /\ children' = Put(children, name, new_member)
               /\ commits' = <<Commit(name, new_member)>>
               /\ ndecl' = ndecl + 1
    /\ call' = CallRec("declare_function", name, NoNode, FALSE)
    /\ UNCHANGED <<named_finals, first_pass_done, types,
                   finalized, processed, applied>>

declare_variable(node) ==
    /\ ndecl < MaxDecls
    /\ decls' = Append(decls, Decl(node, "", NoneVal))
    /\ ndecl' = ndecl + 1
    /\ call' = CallRec("declare_variable", "", node.annotation, FALSE)
    /\ ret' = NoneVal
    /\ commits' = <<>>
    /\ UNCHANGED <<children, named_finals, first_pass_done, types, functions,
                   finalized, processed, applied>>

(***************************************************************************)
(* finish_bind.  The loop runs on a record of the fields it writes:        *)
(* children, named_finals, the finalize calls made so far, the exception   *)
(* raised (ret) and the number of entries taken.                           *)
(***************************************************************************)
\* What value.finish_bind(self) may do: return the value itself, return
\* another value, return None, or raise a diagnostic.
Outcomes == {"same", "other", "none", "raise"}

Finalized(value) == Val("Finalized", value.name, value.id, <<>>)

\* value.finish_bind(self)
value_finish_bind(value, outcome) ==
    CASE outcome = "same" -> value
      [] outcome = "other" -> Finalized(value)
      [] outcome = "none" -> NoneVal
      [] outcome = "raise" -> Error("finish_bind diagnostic")

\* del_child that binds the name to None instead of removing it.
del_child_null(st, name) ==
    [st EXCEPT !.children = Put(st.children, name, NoneVal),
               !.commits = Append(st.commits, Commit(name, NoneVal))]

\* self.children[name] = value
set_child(st, name, value) ==
    [st EXCEPT !.children = Put(st.children, name, value),
               !.commits = Append(st.commits, Commit(name, value))]

\* del self.children[name]
del_child(st, name) ==
    IF name \in DOMAIN st.children
    THEN [st EXCEPT !.children = Del(st.children, name),
                    !.commits = Append(st.commits, Commit(name, NoneVal))]
    ELSE [st EXCEPT !.ret = Error("KeyError")]

\* finalize_effect that keeps the old binding when another value is returned.
finalize_effect_keep(entry, st, new_value) ==
    IF IsError(new_value) THEN [st EXCEPT !.ret = new_value]
    ELSE IF new_value = NoneVal THEN del_child(st, entry.name)
    ELSE st

\* Lines 131-134: what the loop does with the value finish_bind returned.
finalize_effect(entry, st, new_value) ==
    IF IsError(new_value) THEN [st EXCEPT !.ret = new_value]
    ELSE IF new_value = NoneVal THEN del_child(st, entry.name)
    ELSE IF new_value # entry.value THEN set_child(st, entry.name, new_value)
    ELSE st

\* The first half of the loop body: the entry's preliminary value.
bind_value(entry, st, outcome) ==
    IF entry.value = NoneVal THEN st
    ELSE LET new_value == value_finish_bind(entry.value, outcome)
         IN finalize_effect(entry,
                [st EXCEPT !.finalized =
                    Append(st.finalized, Finalize(entry.value, new_value))],
                new_value)

\* self._get_inferred_type(value)
_get_inferred_type(ch, value) ==
    IF value.node # "Name" THEN NoneVal ELSE Get(ch, value.id)

\* The instance type an annotated assignment binds its target to.
bound_instance(typ, value, ch) ==
    IF value # NoNode /\ IsFinalClass(typ) /\ IsDynamicClass(unwrap(typ))
    THEN Or(_get_inferred_type(ch, value), Instance(typ))
    ELSE Instance(typ)

\* Whether the literal of a Final declaration is recorded.
records_literal(typ, target, value) ==
    ~IsCType(typ) /\ target.node = "Name" /\ value.node = "Constant"

\* The annotation of a declaration resolved.
declared_type(annotation, ch) == resolve_annotation(annotation, TRUE, ch, TRUE)

\* Lines 138-151: the target bound to the instance type of the annotation.
bind_target(node, st, typ) ==
    IF typ # NoneVal /\ node.target.node = "Name"
    THEN set_child(st, node.target.id, bound_instance(typ, node.value, st.children))
    ELSE st

\* bind_final without the test of the initializer.
bind_final_unchecked(node, st, typ) ==
    IF IsFinalClass(typ) /\ records_literal(typ, node.target, node.value)
    THEN [st EXCEPT !.named_finals = Put(st.named_finals, node.target.id, node.value)]
    ELSE st

\* Lines 153-165: the initializer a Final needs, and its literal recorded.
bind_final(node, st, typ) ==
    IF ~IsFinalClass(typ) THEN st
    ELSE IF node.value = NoNode
    THEN [st EXCEPT !.ret = Error("Must assign a value when declaring a Final")]
    ELSE IF records_literal(typ, node.target, node.value)
    THEN [st EXCEPT !.named_finals = Put(st.named_finals, node.target.id, node.value)]
    ELSE st

\* bind_declared with the test of the initializer before the target is bound.
bind_declared_final_first(node, st, typ) ==
    IF IsError(typ) THEN [st EXCEPT !.ret = typ]
    ELSE IF IsError(bind_final(node, st, typ).ret) THEN bind_final(node, st, typ)
    ELSE bind_final(node, bind_target(node, st, typ), typ)

\* The body of `if isinstance(node, ast.AnnAssign)`, typ being resolved.
bind_declared(node, st, typ) ==
    IF IsError(typ) THEN [st EXCEPT !.ret = typ]
    ELSE bind_final(node, bind_target(node, st, typ), typ)

\* The second half of the loop body: an annotated assignment.
bind_annassign(node, st) ==
    IF node.type # "AnnAssign" THEN st
    ELSE bind_declared(node, st, declared_type(node.annotation, st.children))

\* One iteration of the loop.
bind_entry(entry, st, outcome) ==
    LET s0 == [st EXCEPT !.processed = st.processed + 1]
        s1 == bind_value(entry, s0, outcome)
    IN IF IsError(s1.ret) THEN s1 ELSE bind_annassign(entry.node, s1)

\* bind_loop that goes on to the next entry after an exception.
RECURSIVE bind_loop_continue(_, _, _, _)
bind_loop_continue(i, ds, st, oc) ==
    IF i > Len(ds) THEN st
    ELSE bind_loop_continue(i + 1, ds, bind_entry(ds[i], st, oc[i]), oc)

\* The loop from entry i on: an exception leaves it.
RECURSIVE bind_loop(_, _, _, _)
bind_loop(i, ds, st, oc) ==
    IF i > Len(ds) THEN st
    ELSE LET s1 == bind_entry(ds[i], st, oc[i])
         IN IF IsError(s1.ret) THEN s1 ELSE bind_loop(i + 1, ds, s1, oc)

\* The outcomes of the finalize calls of one run: one per entry with a value.
OutcomesOf(ds) ==
    {oc \in [1..Len(ds) -> Outcomes] :
        \A i \in 1..Len(ds) : ds[i].value = NoneVal => oc[i] = "same"}

\* decls_after that clears the list however the loop ended.
decls_after_cleared(ds, st) == <<>>

\* self.decls after the loop: cleared once the loop has ended.
decls_after(ds, st) == IF IsError(st.ret) THEN ds ELSE <<>>

\* The compiler runs the binder once per table, when its first traversal of
\* the module has ended.
finish_bind ==
    /\ ~first_pass_done
    /\ \E oc \in OutcomesOf(decls) :
        LET st == bind_loop(1, decls,
                            [children |-> children, named_finals |-> named_finals,
                             finalized |-> <<>>, commits |-> <<>>, ret |-> NoneVal,
                             processed |-> 0],
                            oc)
        IN /\ children' = st.children
           /\ named_finals' = st.named_finals
           /\ finalized' = st.finalized
           /\ commits' = st.commits
           /\ processed' = st.processed
           /\ ret' = st.ret
           /\ decls' = decls_after(decls, st)
    /\ first_pass_done' = TRUE
    /\ call' = CallRec("finish_bind", "", NoNode, FALSE)
    /\ UNCHANGED <<types, functions, ndecl, applied>>

(***************************************************************************)
(* finish_decorator.  A FunctionDef node is its id and its decorator_list; *)
(* yields[k] says whether bind_decorate_function of the k-th written       *)
(* decorator returns a value.                                              *)
(***************************************************************************)
RECURSIVE reversed(_)
reversed(s) == IF s = <<>> THEN <<>> ELSE Append(reversed(Tail(s)), Head(s))

\* decorator_type.bind_decorate_function(res, decorator)
bind_decorate_function(decorator_type, res, yield) ==
    IF yield THEN Val("Decorated", "", 0, <<decorator_type, res>>) ELSE NoneVal

\* decorator_order without reversed(): the written order.
decorator_order_written(n) == [k \in 1..n |-> k]

\* The order in which the positions 1..n of decorator_list are visited.
decorator_order(n) == reversed([k \in 1..n |-> k])

\* The loop over the visiting order: the accumulated value (None once an
\* application yielded none) and the positions applied so far.
RECURSIVE decorate_loop(_, _, _, _, _, _)
decorate_loop(order, decorator_list, yields, acc, ch, done) ==
    IF order = <<>> THEN acc
    ELSE LET k == Head(order)
             decorator_type == Or(resolve_decorator(decorator_list[k], ch, done),
                                  DYNAMIC_TYPE)
             res == bind_decorate_function(decorator_type, acc.res, yields[k])
             a1 == [res |-> res, applied |-> Append(acc.applied, [pos |-> k, res |-> res])]
         IN IF res = NoneVal THEN a1
            ELSE decorate_loop(Tail(order), decorator_list, yields, a1, ch, done)

\* self.types[node] after the loop.
node_type(res, func) == IF res = NoneVal THEN UnknownDecoratedMethod(func) ELSE res

finish_decorator(i, name, decorator_list, yields) ==
    /\ LET func == Function(name, i)
           acc == decorate_loop(decorator_order(Len(decorator_list)), decorator_list,
                                yields, [res |-> func, applied |-> <<>>],
                                children, first_pass_done)
       IN /\ types' = Put(types, i, node_type(acc.res, func))
          /\ ret' = acc.res
          /\ applied' = acc.applied
    /\ call' = CallRec("finish_decorator", name, Tuple(decorator_list), FALSE)
    /\ UNCHANGED <<children, decls, named_finals, first_pass_done, functions,
                   ndecl, finalized, commits, processed>>

(***************************************************************************)
(* The resolution entry points, called on the table as it is.              *)
(***************************************************************************)
call_resolve_annotation(node, is_declaration) ==
    /\ ret' = resolve_annotation(node, is_declaration, children, first_pass_done)
    /\ call' = CallRec("resolve_annotation", "", node, is_declaration)
    /\ UNCHANGED <<children, decls, named_finals, first_pass_done, types,
                   functions, ndecl, finalized, commits, processed, applied>>

call_resolve_type(node) ==
    /\ ret' = resolve_type(node, children, first_pass_done)
    /\ call' = CallRec("resolve_type", "", node, FALSE)
    /\ UNCHANGED <<children, decls, named_finals, first_pass_done, types,
                   functions, ndecl, finalized, commits, processed, applied>>

call_resolve_decorator(node) ==
    /\ ret' = resolve_decorator(node, children, first_pass_done)
    /\ call' = CallRec("resolve_decorator", "", node, FALSE)
    /\ UNCHANGED <<children, decls, named_finals, first_pass_done, types,
                   functions, ndecl, finalized, commits, processed, applied>>

(***************************************************************************)
(* Inputs.                                                                 *)
(***************************************************************************)
Names == {"a", "b"}

TargetA == Name("a")
FinalInt == Subscript(Name("Final"), Name("int"))

\* The annotated assignments a module declares.
PlainDecl == AnnAssign(Name("int"), TargetA, ConstNum)           \* a: int = 5
FinalDecl == AnnAssign(FinalInt, TargetA, ConstNum)              \* a: Final[int] = 5
FinalNoValue == AnnAssign(FinalInt, TargetA, NoNode)             \* a: Final[int]
FinalInferred == AnnAssign(Name("Final"), TargetA, Name("b"))    \* a: Final = b
ClassVarDecl ==                                                  \* a: ClassVar[int] = 5
    AnnAssign(Subscript(Name("ClassVar"), Name("int")), TargetA, ConstNum)
ForwardDecl == AnnAssign(Str(Name("b")), TargetA, NoNode)        \* a: "b"
FinalCTypeDecl ==                                                \* a: Final[int64] = 5
    AnnAssign(Subscript(Name("Final"), Name("int64")), TargetA, ConstNum)
FinalStrDecl == AnnAssign(Str(FinalInt), TargetA, ConstNum)      \* a: "Final[int]" = 5
FinalAttrDecl ==                                                 \* b.a: Final[int] = 5
    AnnAssign(FinalInt, Attribute(Name("b"), "a"), ConstNum)
FinalNameDecl == AnnAssign(FinalInt, TargetA, Name("b"))         \* a: Final[int] = b

AnnAssigns ==
    {PlainDecl, FinalDecl, FinalNoValue, FinalInferred, ClassVarDecl, ForwardDecl}

(***************************************************************************)
(* get_final_literal.  A reference to a name carries its expression        *)
(* context (Load, Store or Del); a scope is the module scope or a nested   *)
(* one, with the names it defines.                                         *)
(***************************************************************************)
Ref(i, ctx) == Ast("Name", i, <<Ast(ctx, "", <<>>)>>)
Load == Ast("Load", "", <<>>)
ModuleScope(defs) == [module |-> TRUE, defs |-> defs]
FunctionScope(defs) == [module |-> FALSE, defs |-> defs]

ScopedCall(op, node, scope) ==
    [op |-> op, name |-> "", node |-> node, decl |-> FALSE, scope |-> scope]

\* unshadowed without the test of the scope's own names.
unshadowed_anywhere(node, scope) == TRUE

\* The name is not shadowed in the local scope.
unshadowed(node, scope) == scope.module \/ node.id \notin scope.defs

\* isinstance(node.ctx, ast.Load)
is_load(node) == node.kids = <<Load>>

\* What get_final_literal returns on the literals recorded in nf.
final_literal(nf, node, scope) ==
    IF node.node # "Name" THEN NoneVal
    ELSE IF Get(nf, node.id) # NoneVal /\ is_load(node) /\ unshadowed(node, scope)
    THEN Get(nf, node.id)
    ELSE NoneVal

get_final_literal(node, scope) ==
    /\ ret' = final_literal(named_finals, node, scope)
    /\ call' = ScopedCall("get_final_literal", node, scope)
    /\ UNCHANGED <<children, decls, named_finals, first_pass_done, types,
                   functions, ndecl, finalized, commits, processed, applied>>

(***************************************************************************)
(* The Final declarations of a module, the binder, and reads of the        *)
(* recorded literals from the module scope and from a nested scope.        *)
(***************************************************************************)
FinalOtherDecl == AnnAssign(FinalInt, Name("b"), ConstNum)       \* b: Final[int] = 5
FinalNoneDecl == AnnAssign(Name("Final"), TargetA, ConstNone)    \* a: Final = None

FinalAssigns ==
    {PlainDecl, FinalDecl, FinalCTypeDecl, FinalStrDecl, FinalAttrDecl,
     FinalNameDecl, FinalOtherDecl, FinalNoneDecl}

Refs == {Ref("a", "Load"), Ref("a", "Store"), Ref("a", "Del"), Ref("b", "Load"), ConstNum}
Scopes == {ModuleScope({"a"}), FunctionScope({}), FunctionScope({"a"})}

NextFinals ==
    \/ \E node \in FinalAssigns : declare_variable(node)
    \/ finish_bind
    \/ \E node \in Refs, scope \in Scopes : get_final_literal(node, scope)

SpecFinals == Init /\ [][NextFinals]_vars

(***************************************************************************)
(* A string annotation naming class b, in a module that declares classes   *)
(* before or after the annotated assignment.                               *)
(***************************************************************************)
ForwardExprs == {Str(Name("b")), Name("b")}

NextForward ==
    \/ \E name \in Names : declare_class(name)
    \/ declare_variable(ForwardDecl)
    \/ finish_bind
    \/ \E node \in ForwardExprs, is_declaration \in BOOLEAN :
          call_resolve_annotation(node, is_declaration)

SpecForward == Init /\ [][NextForward]_vars

(***************************************************************************)
(* The life of a table: declarations, then the binder.                     *)
(***************************************************************************)
Next ==
    \/ \E name \in Names : declare_class(name)
    \/ \E name \in Names : declare_function(name)
    \/ \E node \in AnnAssigns : declare_variable(node)
    \/ finish_bind

Spec == Init /\ [][Next]_vars

(***************************************************************************)
(* The resolution entry points called in either phase of a table that      *)
(* declares class b and function a.                                        *)
(***************************************************************************)
ClassVarInt == Subscript(Name("ClassVar"), Name("int"))
IntOrFloat == BinOp(Name("int"), Name("float"))
UnionIntFloat == Subscript(Name("Union"), Tuple(<<Name("int"), Name("float")>>))

ProbeExprs == {Name("b"), Name("int"), Name("zz"), FinalInt, Str(Name("b"))}
DecoratorExprs == {Name("b"), Name("a"), Name("zz"), Call(Name("b")), Call(Name("a"))}

\* The decorator lists of length n, each with what its applications yield.
DecoratorLists(decorators, n) == [1..n -> decorators]
Yields(n) == [1..n -> BOOLEAN]

NextPhase ==
    \/ ndecl < 2 /\ declare_class("b")
    \/ ndecl < 2 /\ declare_function("a")
    \/ finish_bind
    \/ \E node \in ProbeExprs, is_declaration \in BOOLEAN :
          call_resolve_annotation(node, is_declaration)
    \/ \E node \in ProbeExprs : call_resolve_type(node)
    \/ \E node \in DecoratorExprs : call_resolve_decorator(node)
    \/ \E n \in 0..1 : \E decorator_list \in DecoratorLists({Name("b")}, n) :
          \E yields \in Yields(n) : finish_decorator(1, "a", decorator_list, yields)

SpecPhase == Init /\ [][NextPhase]_vars

(***************************************************************************)
(* resolve_annotation on annotation expressions over the builtins, class b *)
(* and function a.                                                         *)
(***************************************************************************)
\* Names of classes, when b is bound to its class.
ClassNames == {Name("int"), Name("float"), Name("str"), Name("b")}
Operands == ClassNames \cup {ConstNone, Name("zz"), Name("a")}
Qualifiers == {Name("Final"), FinalInt, ClassVarInt}

AnnExprs ==
    Operands \cup Qualifiers \cup {Name("int64")}
    \cup {BinOp(x, y) : x \in Operands, y \in ClassNames \cup {ConstNone}}
    \cup {BinOp(q, ConstNone) : q \in Qualifiers}
    \cup {Subscript(q, c) : q \in {Name("Final"), Name("Optional")},
                            c \in {Name("float"), Name("b"), FinalInt, ClassVarInt}}
    \cup {Str(e) : e \in {Name("b"), FinalInt, ClassVarInt}}
    \cup {UnionIntFloat,
          Subscript(Name("Union"), Tuple(<<Name("int"), ConstNone>>)),
          Subscript(Name("Union"), Tuple(<<Name("int"), FinalInt>>)),
          Subscript(Name("int"), Name("str")),
          BinAdd(Name("int"), Name("str")),
          Attribute(Name("b"), "x")}

NextResolve ==
    \/ ndecl < 2 /\ declare_class("b")
    \/ ndecl < 2 /\ declare_function("a")
    \/ finish_bind
    \/ \E node \in AnnExprs, is_declaration \in BOOLEAN :
          call_resolve_annotation(node, is_declaration)

SpecResolve == Init /\ [][NextResolve]_vars

(***************************************************************************)
(* finish_decorator on the definition of function a, under decorator lists *)
(* of up to MaxDecorators decorators.                                      *)
(***************************************************************************)
Decorators == {Name("b"), Name("zz")}

NextDecorator ==
    \/ ndecl < 1 /\ declare_class("b")
    \/ finish_bind
    \/ \E n \in 0..MaxDecorators : \E decorator_list \in DecoratorLists(Decorators, n) :
          \E yields \in Yields(n) : finish_decorator(1, "a", decorator_list, yields)

SpecDecorator == Init /\ [][NextDecorator]_vars

(***************************************************************************)
(* Claims.                                                                 *)
(***************************************************************************)
ResolutionEntryPoints ==
    {"resolve_annotation", "resolve_type", "resolve_decorator", "finish_decorator"}

\* C1: every resolution entry point (resolve_annotation, resolve_type,
\* resolve_decorator, finish_decorator) called while first_pass_done is
\* false fails the contract check: it raises the assertion error and
\* returns no value.
C1_PrematureResolutionFails ==
    (call.op \in ResolutionEntryPoints /\ ~first_pass_done)
        => ret = Error("AssertionError")

\* The entries of decls declared under a name, in order.
RECURSIVE DeclsOf(_, _)
DeclsOf(ds, name) ==
    IF ds = <<>> THEN <<>>
    ELSE IF Head(ds).name = name THEN <<Head(ds)>> \o DeclsOf(Tail(ds), name)
    ELSE DeclsOf(Tail(ds), name)

\* A name that only function declarations have declared, before the binder.
OnlyFunctions(name) ==
    /\ ~first_pass_done
    /\ DeclsOf(decls, name) # <<>>
    /\ \A i \in 1..Len(DeclsOf(decls, name)) :
          DeclsOf(decls, name)[i].node.type = "FunctionDef"

\* The functions declared under a name, in declaration order.
DeclaredFunctions(name) ==
    [i \in 1..Len(DeclsOf(decls, name)) |->
        Function(name, DeclsOf(decls, name)[i].node.id)]

\* C2: under a sequence of declare_function calls, a name declared by one
\* function is bound to that function; a name declared by n >= 2 functions
\* is bound to one overload group whose members are exactly those n
\* functions in declaration order, and the second and every later
\* declaration carry that same group.
C2_OverloadGroup ==
    \A name \in Names :
        OnlyFunctions(name) =>
            LET fs == DeclaredFunctions(name)
                es == DeclsOf(decls, name)
            IN /\ name \in DOMAIN children
               /\ Len(fs) = 1 => children[name] = fs[1]
               /\ Len(fs) >= 2 =>
                    /\ IsFunctionGroup(children[name])
                    /\ functions[children[name].id] = fs
                    /\ \A i \in 2..Len(es) : es[i].value = children[name]

C2_Witness ==
    /\ OnlyFunctions("a")
    /\ Len(DeclsOf(decls, "a")) = 3
    /\ IsFunctionGroup(children["a"])
    /\ Len(functions[children["a"].id]) = 3

\* C3: after finish_bind completes decls is empty, and no declared value
\* (class, function or overload group) has its finish_bind invoked twice
\* by one run of the binder.
C3_NoDeclarationProcessedTwice ==
    /\ (call.op = "finish_bind" /\ ~IsError(ret)) => decls = <<>>
    /\ \A i, j \in 1..Len(finalized) :
          i # j => finalized[i].value # finalized[j].value

\* The last write to children[name] among the commits, if any.
CommitsOf(name) == {i \in 1..Len(commits) : commits[i].name = name}
LastCommit(name) ==
    commits[CHOOSE i \in CommitsOf(name) : \A j \in CommitsOf(name) : j <= i]

\* C4: children never maps a name to None; a name whose binding was
\* removed is absent, and children[name] is the binding the last
\* declaration or binder run committed for the name last.
C4_ChildrenCommitted ==
    /\ \A name \in DOMAIN children :
          children[name] # NoneVal /\ ~IsError(children[name])
    /\ \A name \in Names :
          CommitsOf(name) # {} =>
              IF LastCommit(name).value = NoneVal
              THEN name \notin DOMAIN children
              ELSE name \in DOMAIN children
                   /\ children[name] = LastCommit(name).value

C4_Witness ==
    /\ call.op = "finish_bind"
    /\ \E i \in 1..Len(commits) :
          /\ commits[i].value = NoneVal
          /\ commits[i].name \notin DOMAIN children
    /\ \E i \in 1..Len(commits) :
          /\ commits[i].value # NoneVal
          /\ commits[i].name \in DOMAIN children
          /\ children[commits[i].name] = commits[i].value

\* C5: declare_function on a name bound to a symbol that is neither a
\* function nor an overload group raises the binding-conflict error and
\* leaves children and decls as they were.
C5_ConflictLeavesTable ==
    [][(/\ call'.op = "declare_function"
        /\ Get(children, call'.name) # NoneVal
        /\ ~IsFunction(Get(children, call'.name))
        /\ ~IsFunctionGroup(Get(children, call'.name)))
          => /\ ret' = Error("function conflicts with other member")
             /\ children' = children
             /\ decls' = decls]_vars

C5_Witness ==
    /\ call.op = "declare_function"
    /\ ret = Error("function conflicts with other member")
    /\ call.name \in DOMAIN children
    /\ children[call.name].kind = "Class"

\* C6: finish_decorator applies the decorators in reverse of their written
\* order, each to the result of the one before (the first to the function);
\* once an application yields no value no further decorator is applied,
\* types[node] is UnknownDecoratedMethod(func), nothing is raised and None
\* is returned; otherwise every decorator is applied and types[node] is the
\* value returned.
C6_DecoratorOrder ==
    call.op = "finish_decorator" =>
        LET n == Len(call.node.kids)
            m == Len(applied)
            func == Function(call.name, 1)
            prev(j) == IF j = 1 THEN func ELSE applied[j - 1].res
        IN /\ ~IsError(ret)
           /\ m <= n
           /\ \A j \in 1..m : applied[j].pos = n - j + 1
           /\ \A j \in 1..m :
                 applied[j].res # NoneVal => applied[j].res.args[2] = prev(j)
           /\ \A j \in 1..m : applied[j].res = NoneVal => j = m
           /\ IF m > 0 /\ applied[m].res = NoneVal
              THEN ret = NoneVal /\ types[1] = UnknownDecoratedMethod(func)
              ELSE m = n /\ ret = prev(m + 1) /\ types[1] = ret

\* Three decorators: the innermost applied, the middle one yields no value,
\* the outermost never applied.
C6_Witness ==
    /\ call.op = "finish_decorator"
    /\ Len(call.node.kids) = 3
    /\ Len(applied) = 2
    /\ applied[1].pos = 3 /\ applied[1].res # NoneVal
    /\ applied[2].pos = 2 /\ applied[2].res = NoneVal
    /\ ret = NoneVal
    /\ types[1] = UnknownDecoratedMethod(Function("a", 1))

\* An annotation expression that resolves to an ordinary class, not the
\* null type, and that class as an annotation names it.
ResolvableClass(node) ==
    /\ _resolve_annotation(node, children, TRUE).kind \in {"Class", "ExactClass"}
    /\ inexact_type(_resolve_annotation(node, children, TRUE)) # NONE_TYPE
AnnotatedClass(node) == inexact_type(_resolve_annotation(node, children, TRUE))

IsUnionCall ==
    /\ call.op = "resolve_annotation"
    /\ first_pass_done
    /\ call.node.node = "BinOp"
    /\ call.node.id = "BitOr"

\* The optional-of-A type: a union whose optional facet is A.
IsOptionalOf(typ, klass) == IsUnionType(typ) /\ opt_type(typ) = klass

\* C7 as claimed: after binding, A | B of resolvable classes A and B
\* resolves to dynamic (None), and A | None resolves to optional-of-A for
\* every resolvable class A, float included.
C7_OptionalOfAnyClass ==
    IsUnionCall =>
        /\ (ResolvableClass(call.node.kids[1]) /\ ResolvableClass(call.node.kids[2]))
              => ret = NoneVal
        /\ (ResolvableClass(call.node.kids[1]) /\ call.node.kids[2] = ConstNone)
              => IsOptionalOf(ret, AnnotatedClass(call.node.kids[1]))

\* C7 amended: after binding, A | B of resolvable classes A and B resolves
\* to dynamic (None); A | None resolves to optional-of-A for every
\* resolvable class A other than float, and float | None resolves to
\* dynamic (None).
C7_OptionalExceptFloat ==
    IsUnionCall =>
        /\ (ResolvableClass(call.node.kids[1]) /\ ResolvableClass(call.node.kids[2]))
              => ret = NoneVal
        /\ (ResolvableClass(call.node.kids[1]) /\ call.node.kids[2] = ConstNone)
              => IF AnnotatedClass(call.node.kids[1]) = FLOAT_TYPE
                 THEN ret = NoneVal
                 ELSE IsOptionalOf(ret, AnnotatedClass(call.node.kids[1]))

C7_Witness ==
    /\ IsUnionCall
    /\ call.node = BinOp(Name("float"), ConstNone)
    /\ ret = NoneVal

\* C8: after binding, the annotation float resolves to what int | float and
\* Union[int, float] resolve to, and the annotation int resolves to the
\* int class in its inexact form: no union, not dynamic.
C8_FloatWidening ==
    (call.op = "resolve_annotation" /\ first_pass_done) =>
        /\ call.node = Name("float") =>
              /\ ret = resolve_annotation(IntOrFloat, call.decl, children, TRUE)
              /\ ret = resolve_annotation(UnionIntFloat, call.decl, children, TRUE)
        /\ call.node = Name("int") => ret = INT_TYPE

C8_Witness ==
    /\ call.op = "resolve_annotation"
    /\ first_pass_done
    /\ call.node = Name("float")
    /\ ret = NoneVal

\* A step of finish_bind.
BindStep == ~first_pass_done /\ first_pass_done'

\* C9: when finish_bind processes an annotated assignment whose annotation
\* resolves to a Final qualifier and that has no initializer, the entry is
\* the last it processes and it raises the missing-initializer error.
C9_FinalNeedsInitializer ==
    [][BindStep =>
        \A i \in 1..processed' :
            (/\ decls[i].node.type = "AnnAssign"
             /\ decls[i].node.value = NoNode
             /\ IsFinalClass(declared_type(decls[i].node.annotation, children')))
              => /\ i = processed'
                 /\ ret' = Error("Must assign a value when declaring a Final")]_vars

C9_Witness ==
    /\ call.op = "finish_bind"
    /\ ret = Error("Must assign a value when declaring a Final")
    /\ processed = 2
    /\ decls[processed].node = FinalNoValue

\* C10: when finish_bind binds an annotated assignment of the module whose
\* annotation is ClassVar-qualified, it raises the misplaced-qualifier
\* error.
C10_ClassVarRejected ==
    [][BindStep =>
        \A i \in 1..processed' :
            (/\ decls[i].node.type = "AnnAssign"
             /\ IsClassVar(declared_type(decls[i].node.annotation, children')))
              => /\ i = processed'
                 /\ ret' = Error("misplaced ClassVar")]_vars

\* A Final-qualified or ClassVar-qualified type.
IsQualifier(v) == IsFinalClass(v) \/ IsClassVar(v)
MisplacedQualifier == {Error("misplaced Final"), Error("misplaced ClassVar")}

\* What the recursive resolver makes of a node on the table as it is.
Recursive(node) == _resolve_annotation(node, children, TRUE)

\* The argument, or an argument, of a subscript whose target resolves is a
\* qualifier.
QualifierArgument(node) ==
    /\ node.node = "Subscript"
    /\ resolve_annotation(node.kids[1], TRUE, children, TRUE) # NoneVal
    /\ ~IsError(resolve_annotation(node.kids[1], TRUE, children, TRUE))
    /\ IF node.kids[2].node = "Tuple"
       THEN \E k \in 1..Len(node.kids[2].kids) :
                IsQualifier(Recursive(node.kids[2].kids[k]))
       ELSE IsQualifier(Recursive(node.kids[2]))

\* An operand of a union written with | is a qualifier.
QualifierOperand(node) ==
    /\ node.node = "BinOp"
    /\ node.id = "BitOr"
    /\ \E k \in 1..2 : IsQualifier(Recursive(node.kids[k]))

\* C11: after binding, resolve_annotation with is_declaration false never
\* returns a Final- or ClassVar-qualified type: when the recursive
\* resolver's result is such a qualifier at top level, as a subscript
\* argument or as a union operand, the call raises the misplaced-qualifier
\* error; with is_declaration true a qualifier that is the top-level result
\* is returned without error.
C11_QualifierOnlyInDeclaration ==
    (call.op = "resolve_annotation" /\ first_pass_done) =>
        /\ ~call.decl => ~IsQualifier(ret)
        /\ (~call.decl /\ IsFinalClass(Recursive(call.node)))
              => ret = Error("misplaced Final")
        /\ (~call.decl /\ IsClassVar(Recursive(call.node)))
              => ret = Error("misplaced ClassVar")
        /\ (~call.decl /\ (QualifierArgument(call.node) \/ QualifierOperand(call.node)))
              => ret \in MisplacedQualifier
        /\ (call.decl /\ IsQualifier(Recursive(call.node)))
              => ret = Recursive(call.node)

C11_Witness ==
    /\ call.op = "resolve_annotation"
    /\ first_pass_done
    /\ ~call.decl
    /\ call.node = Subscript(Name("Optional"), ClassVarInt)
    /\ ret = Error("misplaced ClassVar")

\* C12: named_finals gets an entry for a name only from a Final-qualified
\* annotated assignment to that simple name whose initializer is a literal
\* constant and whose inner type is not a primitive machine-numeric type
\* (a CType); a Final declaration of a CType never adds an entry.
C12_LiteralsOnlyNonPrimitive ==
    [][BindStep =>
        \A n \in DOMAIN named_finals' :
            \E i \in 1..processed' :
                /\ decls[i].node.type = "AnnAssign"
                /\ decls[i].node.target = Name(n)
                /\ decls[i].node.value.node = "Constant"
                /\ named_finals'[n].node = "Constant"
                /\ IsFinalClass(declared_type(decls[i].node.annotation, children'))
                /\ ~IsCType(unwrap(declared_type(decls[i].node.annotation, children')))]_vars

\* The same with the inner type left free: every entry comes from a Final
\* declaration of a simple name initialized with a literal constant.
C12_LiteralsOnlyFinalConstants ==
    [][BindStep =>
        \A n \in DOMAIN named_finals' :
            \E i \in 1..processed' :
                /\ decls[i].node.type = "AnnAssign"
                /\ decls[i].node.target = Name(n)
                /\ decls[i].node.value.node = "Constant"
                /\ named_finals'[n].node = "Constant"
                /\ IsFinalClass(declared_type(decls[i].node.annotation, children'))]_vars

\* a: Final[int64] = 5 alone has recorded the literal 5 under a.
C12_Witness ==
    /\ call.op = "finish_bind"
    /\ ~IsError(ret)
    /\ processed = 1
    /\ children = [n \in {"a"} |-> Instance(make_generic_type(FINAL_TYPE, <<INT64_TYPE>>))]
    /\ named_finals = [n \in {"a"} |-> ConstNum]

\* C13: get_final_literal returns the recorded literal of a name reference
\* if and only if a literal is recorded under the identifier, the
\* reference is in load context, and the scope is the module scope or does
\* not define the identifier itself; in every other case it returns None.
C13_FinalLiteralVisible ==
    call.op = "get_final_literal" =>
        IF /\ call.node.node = "Name"
           /\ call.node.id \in DOMAIN named_finals
           /\ call.node.kids = <<Load>>
           /\ (call.scope.module \/ call.node.id \notin call.scope.defs)
        THEN ret = named_finals[call.node.id]
        ELSE ret = NoneVal

C13_Witness ==
    /\ call.op = "get_final_literal"
    /\ call.node = Ref("a", "Load")
    /\ call.scope = FunctionScope({})
    /\ named_finals = [n \in {"a", "b"} |-> ConstNum]
    /\ ret = ConstNum

\* C14: a string annotation naming a class that is declared later in the
\* module than the annotated assignment resolves to that class.  When
\* finish_bind completes the entry of a: "b", with b declared by later
\* entries only and last by a class, the target a is bound to the
\* instance type of that class; and after binding, while b
\* is bound to the declared class, resolve_annotation of "b" yields it.
C14_ForwardReference ==
    [][/\ BindStep =>
            \A i \in 1..processed' : \A j \in (i + 1)..Len(decls) :
                (/\ decls[i].node = ForwardDecl
                 /\ decls[j].node.type = "ClassDef"
                 /\ decls[j].name = "b"
                 /\ \A k \in 1..Len(decls) : decls[k].name = "b" => (i < k /\ k <= j)
                 /\ (i < processed' \/ ~IsError(ret')))
                  => \E c \in 1..Len(commits') :
                        commits'[c] = Commit("a", Instance(decls[j].value))
       /\ (/\ call'.op = "resolve_annotation"
           /\ call'.node = Str(Name("b"))
           /\ first_pass_done
           /\ Get(children, "b").kind = "Class")
            => ret' = children["b"]]_vars

\* a: "b" then class b, bound, and "b" resolved after binding.
C14_Witness ==
    /\ call.op = "resolve_annotation"
    /\ call.node = Str(Name("b"))
    /\ first_pass_done
    /\ ndecl = 2
    /\ decls = <<>>
    /\ children = [n \in {"a", "b"} |->
                      IF n = "a" THEN Instance(UserClass("b", 2)) ELSE UserClass("b", 2)]
    /\ ret = UserClass("b", 2)

\* The preliminary values of the entries that carry one, in order.
RECURSIVE ValuesOf(_)
ValuesOf(ds) ==
    IF ds = <<>> THEN <<>>
    ELSE IF Head(ds).value = NoneVal THEN ValuesOf(Tail(ds))
    ELSE <<Head(ds).value>> \o ValuesOf(Tail(ds))

\* The name an entry may bind: the declared name, or the simple-name target
\* of an annotated assignment.
BindsName(entry, name) ==
    \/ entry.value # NoneVal /\ entry.name = name
    \/ entry.node.type = "AnnAssign" /\ entry.node.target = Name(name)

AnnotationErrors ==
    MisplacedQualifier \cup {Error("Must assign a value when declaring a Final")}

\* C15: finish_bind is fail-fast.  When it raises, the entry that raised is
\* the last it took from decls: finish_bind was invoked on the values of
\* the entries up to it and on no later one, the error is the one that
\* entry's finalize call or annotation raised, and every write to children
\* and named_finals is a write of an entry up to it.
C15_FailFast ==
    [][(BindStep /\ IsError(ret')) =>
        /\ processed' \in 1..Len(decls)
        /\ [k \in 1..Len(finalized') |-> finalized'[k].value]
              = ValuesOf(SubSeq(decls, 1, processed'))
        /\ \A k \in 1..(Len(finalized') - 1) : ~IsError(finalized'[k].result)
        /\ \/ /\ decls[processed'].value # NoneVal
              /\ finalized'[Len(finalized')].result = ret'
           \/ /\ decls[processed'].value # NoneVal
              /\ finalized'[Len(finalized')].result = NoneVal
              /\ ret' = Error("KeyError")
           \/ /\ decls[processed'].node.type = "AnnAssign"
              /\ ret' \in AnnotationErrors
        /\ \A c \in 1..Len(commits') :
              \E i \in 1..processed' : BindsName(decls[i], commits'[c].name)
        /\ \A n \in DOMAIN named_finals' :
              \E i \in 1..processed' : BindsName(decls[i], n)]_vars

\* The first of three entries raised; the second carries a value that was
\* never finalized.
C15_Witness ==
    /\ call.op = "finish_bind"
    /\ IsError(ret)
    /\ processed = 1
    /\ Len(decls) = 3
    /\ decls[2].value # NoneVal
    /\ Len(finalized) = 1
    /\ commits = <<>>

\* What the finalize call of the valued entry i returned, fin being the
\* finalize calls of the run.
ResultOf(ds, fin, i) == fin[Len(ValuesOf(SubSeq(ds, 1, i)))].result

\* children after the entries from i on, by the three outcomes: the same
\* value leaves ch alone, None removes the name, another value overwrites
\* it; an annotated assignment binds its target.
RECURSIVE ThreeOutcomes(_, _, _, _)
ThreeOutcomes(i, ds, fin, ch) ==
    IF i > Len(ds) THEN ch
    ELSE IF ds[i].value = NoneVal
    THEN ThreeOutcomes(i + 1, ds, fin,
            bind_target(ds[i].node, [children |-> ch, commits |-> <<>>],
                        declared_type(ds[i].node.annotation, ch)).children)
    ELSE IF ResultOf(ds, fin, i) = ds[i].value
    THEN ThreeOutcomes(i + 1, ds, fin, ch)
    ELSE IF ResultOf(ds, fin, i) = NoneVal
    THEN ThreeOutcomes(i + 1, ds, fin, Del(ch, ds[i].name))
    ELSE ThreeOutcomes(i + 1, ds, fin, Put(ch, ds[i].name, ResultOf(ds, fin, i)))

\* The last entry of a run that carries a value under the name.
IsLastNamed(ds, i, name) ==
    /\ ds[i].value # NoneVal
    /\ ds[i].name = name
    /\ \A j \in (i + 1)..Len(ds) : ~(ds[j].value # NoneVal /\ ds[j].name = name)

\* A run of finish_bind that reaches the end of the loop finalizes the
\* value of every entry that carries one, in recorded order, and applies
\* one of the three outcomes to each.
AppliesThreeOutcomes ==
    /\ [k \in 1..Len(finalized') |-> finalized'[k].value] = ValuesOf(decls)
    /\ children' = ThreeOutcomes(1, decls, finalized', children)

C17_OnlyDiagnosticsRaised ==
    (call.op = "finish_bind" /\ IsError(ret))
        => ret \in AnnotationErrors \cup {Error("finish_bind diagnostic")}

\* Two same-name functions, both entries finalized to no value.
C17_Witness ==
    /\ call.op = "finish_bind"
    /\ ret = Error("KeyError")
    /\ processed = 2
    /\ finalized = <<Finalize(Function("a", 1), NoneVal),
                     Finalize(FunctionGroup("a", 2), NoneVal)>>

\* C18: when finish_bind raises, first_pass_done is already true and decls
\* still holds every entry, processed or not; first_pass_done never goes
\* back to false, and decls is emptied only by a run of finish_bind that
\* reaches the end of the loop.
C18_AbortKeepsDecls ==
    [][/\ BindStep =>
            /\ first_pass_done'
            /\ IsError(ret') => decls' = decls
            /\ ~IsError(ret') => decls' = <<>>
       /\ first_pass_done => first_pass_done'
       /\ (decls # <<>> /\ decls' = <<>>)
            => (BindStep /\ ~IsError(ret') /\ processed' = Len(decls))]_vars

C18_Witness ==
    /\ call.op = "finish_bind"
    /\ IsError(ret)
    /\ first_pass_done
    /\ Len(decls) = 3
    /\ processed = 2

\* C19: when finish_bind raises the missing-initializer error for a Final
\* declaration whose target is a simple name, the target is already bound
\* in children to the instance type of the qualifier, and the declaration
\* adds no entry to named_finals.
C19_TargetBoundBeforeError ==
    [][(BindStep /\ ret' = Error("Must assign a value when declaring a Final")) =>
        /\ decls[processed'].node.type = "AnnAssign"
        /\ decls[processed'].node.value = NoNode
        /\ decls[processed'].node.target.node = "Name" =>
              /\ decls[processed'].node.target.id \in DOMAIN children'
              /\ children'[decls[processed'].node.target.id] =
                    Instance(declared_type(decls[processed'].node.annotation, children'))
              /\ IsFinalClass(children'[decls[processed'].node.target.id].args[1])
              /\ commits'[Len(commits')] =
                    Commit(decls[processed'].node.target.id,
                           children'[decls[processed'].node.target.id])
        /\ \A n \in DOMAIN named_finals' :
              \E j \in 1..(processed' - 1) :
                  /\ decls[j].node.type = "AnnAssign"
                  /\ decls[j].node.target = Name(n)
                  /\ decls[j].node.value.node = "Constant"]_vars

\* a: Final[int] alone: a is bound, no literal is recorded.
C19_Witness ==
    /\ call.op = "finish_bind"
    /\ ret = Error("Must assign a value when declaring a Final")
    /\ processed = 1
    /\ children = [n \in {"a"} |-> Instance(make_generic_type(FINAL_TYPE, <<INT_TYPE>>))]
    /\ named_finals = EmptyDict

\* A string annotation.
IsStr(node) == node.node = "Constant" /\ node.id = "str"

\* C20: the declaration context is not carried through a string
\* annotation.  After binding, resolve_annotation of a string whose text
\* resolves to a Final or ClassVar qualifier raises the misplaced-qualifier
\* error of that qualifier, with is_declaration true as with
\* is_declaration false, although the text itself resolves to the qualifier
\* without error under is_declaration true.
C20_StringDropsDeclaration ==
    (/\ call.op = "resolve_annotation"
     /\ first_pass_done
     /\ IsStr(call.node)
     /\ IsQualifier(Recursive(call.node.kids[1])))
        => /\ IsFinalClass(Recursive(call.node.kids[1])) => ret = Error("misplaced Final")
           /\ IsClassVar(Recursive(call.node.kids[1])) => ret = Error("misplaced ClassVar")
           /\ resolve_annotation(call.node.kids[1], TRUE, children, TRUE)
                 = Recursive(call.node.kids[1])

C20_Witness ==
    /\ call.op = "resolve_annotation"
    /\ first_pass_done
    /\ call.decl
    /\ call.node = Str(FinalInt)
    /\ ret = Error("misplaced Final")

====
